---- MODULE Spec2Model ----
(***************************************************************************)
(* bitblock: the block-file decoder (cache/_util.py, cache/parse.py,       *)
(* cache/__init__.py, prototype/_util.py, prototype/blockreader.py).       *)
(*                                                                         *)
(* Bytes are integers 0..255 and a byte string is a sequence of them.      *)
(* An integer built by pack is kept as the sequence of its base-256        *)
(* coefficients, least significant first (val[i+1] is the coefficient of   *)
(* 256^i), so that 32- and 64-bit values keep their full width.            *)
(* A raised exception is the field err (its Python class name) of the      *)
(* record an operation returns; "none" means the call returned.            *)
(***************************************************************************)
EXTENDS Integers, Sequences, FiniteSets, TLC

VARIABLES
    byteorder,   \* sys.byteorder of the host: "little" or "big"
    call,        \* the operation under way
    buf,         \* the bytes of the source the reader is opened on
    pos,         \* the reader's position (tell())
    bit_sz,      \* the width argument of pack / read_uintN
    pc,          \* control position of the operation
    ret,         \* what the operation returned (or the exception it raised)
    tx,          \* locals and fields of the transaction decoder
    twin,        \* a second source: the segwit encoding of the transaction in
                 \* buf, or the file in buf before it was padded
    index,       \* BlockDataReader.index
    fs,          \* the files on disk: their bytes by path
    args,        \* the arguments of the BlockDataReader calls
    rpc,         \* the BitcoinRPC object, its call under way and the node
    bb           \* the BitBlock object, its queueing task and its threads

vars == <<byteorder, call, buf, pos, bit_sz, pc, ret, tx, twin, index, fs, args,
          rpc, bb>>

----------------------------------------------------------------------------
(* Sequences and base-256 numbers *)

Min(a, b) == IF a < b THEN a ELSE b

Reverse(s) == [i \in 1..Len(s) |-> s[Len(s) + 1 - i]]

Zeros(n) == [i \in 1..n |-> 0]

\* coefficient i (1-based) of a number, 0 beyond its width
Coef(v, i) == IF i <= Len(v) THEN v[i] ELSE 0

MaxLen2(a, b) == IF Len(a) < Len(b) THEN Len(b) ELSE Len(a)

\* numeric equality and order of two numbers of any widths
NatEq(a, b) == \A i \in 1..MaxLen2(a, b) : Coef(a, i) = Coef(b, i)

NatLess(a, b) ==
    \E i \in 1..MaxLen2(a, b) :
        /\ Coef(a, i) < Coef(b, i)
        /\ \A j \in (i + 1)..MaxLen2(a, b) : Coef(a, j) = Coef(b, j)

\* Python's int() of a number that fits three bytes
IsSmall(v) == \A i \in 4..Len(v) : v[i] = 0

ToInt(v) == Coef(v, 1) + 256 * Coef(v, 2) + 65536 * Coef(v, 3)

----------------------------------------------------------------------------
(* Sequencing: With(v, K) is K(v) with v worked out once, the way a        *)
(* statement's result is bound to a local before the next statement runs.  *)

With(v, K(_)) == CHOOSE y \in {K(x) : x \in {v}} : TRUE

----------------------------------------------------------------------------
(* cache/_util.py and prototype/_util.py: set_endian, pack, the readers *)

set_endian(b, order) ==
    IF byteorder = order \/ Len(b) <= 1 THEN b ELSE Reverse(b)

\* the loop of pack: for _b in range(_byte_sz), _value |= _v << _shift, with
\* _v = x[_b] if _b <= _x_sz else 0; x[_b] at _b = _x_sz is out of range
RECURSIVE pack_loop(_, _, _, _)
pack_loop(x, byte_sz, b, value) ==
    IF b = byte_sz THEN [err |-> "none", val |-> value]
    ELSE IF b <= Len(x)
         THEN IF b >= Len(x)
              THEN [err |-> "IndexError", val |-> value]
              ELSE pack_loop(x, byte_sz, b + 1,
                       [value EXCEPT
                           ![((8 * (byte_sz - (b + 1) - (byte_sz - Len(x))))
                                 \div 8) + 1] = x[b + 1]])
         ELSE pack_loop(x, byte_sz, b + 1, value)

pack(x0, bits, signed) ==
    With(set_endian(x0, "big"), LAMBDA x :
        IF Len(x) = 0 THEN [err |-> "none", val |-> <<0>>, signed |-> FALSE]
        ELSE IF Len(x) > bits \div 8
        THEN [err |-> "OverflowError", val |-> <<0>>, signed |-> FALSE]
        ELSE With(pack_loop(x, bits \div 8, 0, Zeros(bits \div 8)), LAMBDA r :
                 [err |-> r.err, val |-> r.val, signed |-> signed]))

\* prototype/_util.py holds a copy of pack under the name pack_bytes
pack_bytes(x0, bits, signed) == pack(x0, bits, signed)

\* BufferedReader.read(n) at position p of source b: at most n bytes
read(b, p, n) ==
    IF p >= Len(b) THEN [data |-> <<>>, pos |-> p]
    ELSE [data |-> SubSeq(b, p + 1, Min(p + n, Len(b))),
          pos  |-> Min(p + n, Len(b))]

read_uint(b, p, bits) ==
    With(read(b, p, bits \div 8), LAMBDA r :
        With(pack(r.data, bits, FALSE), LAMBDA v :
            [err |-> v.err, val |-> v.val, signed |-> v.signed,
             pos |-> r.pos]))

read_uint8(b, p)  == read_uint(b, p, 8)
read_uint16(b, p) == read_uint(b, p, 16)
read_uint32(b, p) == read_uint(b, p, 32)
read_uint64(b, p) == read_uint(b, p, 64)

\* the payload branch of read_varint: read, pack, canonical check
varint_payload(b, p, bits, least) ==
    With(read_uint(b, p, bits), LAMBDA v :
        IF v.err # "none" THEN v
        ELSE IF NatLess(v.val, least)
             THEN [err |-> "ValueError", val |-> v.val, pos |-> v.pos]
             ELSE v)

Least16 == <<253>>               \* uint16(0xfd)
Least32 == <<0, 0, 1>>           \* uint32(0x10000)
Least64 == <<0, 0, 0, 0, 1>>     \* uint64(0x100000000)

read_varint(b, p) ==
    With(read_uint(b, p, 8), LAMBDA d :
        IF d.err # "none" THEN d
        ELSE IF d.val[1] < 253 THEN d
        ELSE IF d.val[1] = 253 THEN varint_payload(b, d.pos, 16, Least16)
        ELSE IF d.val[1] = 254 THEN varint_payload(b, d.pos, 32, Least32)
        ELSE varint_payload(b, d.pos, 64, Least64))

\* prototype/_util.py: the same decoder with the branches in another order
read_var_int(b, p) ==
    With(read_uint(b, p, 8), LAMBDA d :
        IF d.err # "none" THEN d
        ELSE IF d.val[1] = 255 THEN varint_payload(b, d.pos, 64, Least64)
        ELSE IF d.val[1] = 254 THEN varint_payload(b, d.pos, 32, Least32)
        ELSE IF d.val[1] = 253 THEN varint_payload(b, d.pos, 16, Least16)
        ELSE d)

----------------------------------------------------------------------------
(* The digest function, as an abstract one-way function.                   *)
(* A digest is the term [msg, flips]: sha256 applied Len(flips) times to   *)
(* the byte string msg, flips[k] telling whether the k-th digest was       *)
(* byte-reversed before it was used (hashed again, or returned).           *)

sha256(x) == [msg |-> x, flips |-> <<FALSE>>]

\* sha256 of a 32-byte digest
sha256_of_digest(d) == [msg |-> d.msg, flips |-> Append(d.flips, FALSE)]

\* the 32 bytes of a digest in reverse order
reverse_digest(d) ==
    [d EXCEPT !.flips[Len(d.flips)] = ~d.flips[Len(d.flips)]]

\* set_endian on the 32 bytes of a digest
set_endian_digest(d, order) ==
    IF byteorder = order THEN d ELSE reverse_digest(d)

sha256_2(x) ==
    set_endian_digest(
        sha256_of_digest(set_endian_digest(sha256(x), "big")), "big")

\* bytes.hex(): two hexadecimal digits (0..15) a byte, high digit first
hex(b) ==
    [i \in 1..(2 * Len(b)) |->
        IF i % 2 = 1 THEN b[(i + 1) \div 2] \div 16 ELSE b[i \div 2] % 16]

\* bytes.hex() of a digest: the rendering of its 32 bytes in their order
hex_digest(d) == [hex |-> d]

\* read_hash256: 32 bytes (fewer at end of source), swapped, rendered
read_hash256(b, p) ==
    LET r == read(b, p, 32)
    IN  [val |-> hex(set_endian(r.data, "big")), pos |-> r.pos]

----------------------------------------------------------------------------
(* The transaction decoders.  dec names the draft:                         *)
(*   "parse"     cache/parse.py     Transaction, TransactionInput/Output   *)
(*   "cache"     cache/__init__.py  BlockTx, BlockTxIn, BlockTxOut         *)
(*   "prototype" prototype/_util.py decode_tx                              *)
(* The decoder's locals and fields are the record t; t.pos is the cursor,  *)
(* t.stage the next part of the constructor to run, t.err the exception    *)
(* that ended it.                                                          *)

(* "blockreader" is the second decode_tx, of prototype/blockreader.py,     *)
(* which open_block calls: no segwit check, no swap, no identifier.        *)

Decoders == {"parse", "cache", "prototype"}

MaxRange == 8     \* most passes of a decoder's loop the model follows

varint_of(dec, b, p) ==
    IF dec \in {"prototype", "blockreader"} THEN read_var_int(b, p)
    ELSE read_varint(b, p)

\* a loop count the model runs through: range(n) for n up to MaxRange
Countable(v) == IsSmall(v) /\ ToInt(v) <= MaxRange

\* The chunked script read: while _script_sz > 0, read min(_script_sz,
\* 0xffffffff) bytes.  A source shorter than 0xffffffff bytes is emptied by
\* the first chunk and every later chunk reads b'', so the bytes read are the
\* next min(size, remaining) bytes.
script_read(b, p, size) ==
    IF IsSmall(size) THEN read(b, p, ToInt(size)) ELSE read(b, p, Len(b))

\* the stored script: parse and cache swap each chunk, prototype does not
script_text(dec, data) ==
    IF dec \in {"prototype", "blockreader"} THEN hex(data)
    ELSE hex(set_endian(data, "big"))

\* the stored previous-transaction identifier: swapped, but for blockreader
prev_tx_text(dec, data) ==
    IF dec = "blockreader" THEN hex(data) ELSE hex(set_endian(data, "big"))

NoInput ==
    [err |-> "none", pos |-> 0, hash |-> <<>>, n |-> <<0>>,
     script_size |-> <<0>>, sig_script |-> <<>>, sequence |-> <<0>>]

\* TransactionInput.__init__ / BlockTxIn.__init__ / the vIn loop body
tx_input(dec, b, p) ==
    With(read(b, p, 32), LAMBDA h :
    With(read_uint32(b, h.pos), LAMBDA n :
        IF n.err # "none" THEN [NoInput EXCEPT !.err = n.err, !.pos = n.pos]
        ELSE
    With(varint_of(dec, b, n.pos), LAMBDA sz :
        IF sz.err # "none"
        THEN [NoInput EXCEPT !.err = sz.err, !.pos = sz.pos]
        ELSE
    With(script_read(b, sz.pos, sz.val), LAMBDA sc :
    With(read_uint32(b, sc.pos), LAMBDA sq :
        IF sq.err # "none"
        THEN [NoInput EXCEPT !.err = sq.err, !.pos = sq.pos]
        ELSE [err |-> "none", pos |-> sq.pos,
              hash |-> prev_tx_text(dec, h.data), n |-> n.val,
              script_size |-> sz.val,
              sig_script |-> script_text(dec, sc.data),
              sequence |-> sq.val])))))

NoOutput ==
    [err |-> "none", pos |-> 0, value |-> <<0>>, script_size |-> <<0>>,
     pk_script |-> <<>>]

\* TransactionOutput.__init__ / BlockTxOut.__init__ / the vOut loop body
tx_output(dec, b, p) ==
    With(read_uint64(b, p), LAMBDA v :
        IF v.err # "none" THEN [NoOutput EXCEPT !.err = v.err, !.pos = v.pos]
        ELSE
    With(varint_of(dec, b, v.pos), LAMBDA sz :
        IF sz.err # "none"
        THEN [NoOutput EXCEPT !.err = sz.err, !.pos = sz.pos]
        ELSE
    With(script_read(b, sz.pos, sz.val), LAMBDA sc :
        [err |-> "none", pos |-> sc.pos, value |-> v.val,
         script_size |-> sz.val,
         pk_script |-> script_text(dec, sc.data)])))

\* for _i in range(count): list.append(item(buffer))
RECURSIVE tx_input_loop(_, _, _, _, _)
tx_input_loop(dec, b, p, left, acc) ==
    IF left = 0 THEN [err |-> "none", pos |-> p, items |-> acc]
    ELSE With(tx_input(dec, b, p), LAMBDA i :
             IF i.err # "none"
             THEN [err |-> i.err, pos |-> i.pos, items |-> acc]
             ELSE tx_input_loop(dec, b, i.pos, left - 1, Append(acc, i)))

RECURSIVE tx_output_loop(_, _, _, _, _)
tx_output_loop(dec, b, p, left, acc) ==
    IF left = 0 THEN [err |-> "none", pos |-> p, items |-> acc]
    ELSE With(tx_output(dec, b, p), LAMBDA o :
             IF o.err # "none"
             THEN [err |-> o.err, pos |-> o.pos, items |-> acc]
             ELSE tx_output_loop(dec, b, o.pos, left - 1, Append(acc, o)))

\* for _n in range(_num_op): _op = read_varint(buffer); buffer.read(_op)
RECURSIVE witness_items(_, _, _, _)
witness_items(dec, b, p, left) ==
    IF left = 0 THEN [err |-> "none", pos |-> p]
    ELSE With(varint_of(dec, b, p), LAMBDA op :
             IF op.err # "none" THEN [err |-> op.err, pos |-> op.pos]
             ELSE witness_items(dec, b, script_read(b, op.pos, op.val).pos,
                                left - 1))

\* for _i in range(input_count): _num_op = read_varint(buffer); ...
RECURSIVE witness_stacks(_, _, _, _)
witness_stacks(dec, b, p, left) ==
    IF left = 0 THEN [err |-> "none", pos |-> p]
    ELSE With(varint_of(dec, b, p), LAMBDA num_op :
             IF num_op.err # "none"
             THEN [err |-> num_op.err, pos |-> num_op.pos]
             ELSE IF ~Countable(num_op.val)
             THEN [err |-> "Unbounded", pos |-> num_op.pos]
             ELSE With(witness_items(dec, b, num_op.pos, ToInt(num_op.val)),
                       LAMBDA w :
                           IF w.err # "none" THEN w
                           ELSE witness_stacks(dec, b, w.pos, left - 1)))

NoDigest == [hex |-> [msg |-> <<>>, flips |-> <<>>]]

\* the decoder before its first statement, the reader at position p
tx_new(dec, p) ==
    [dec |-> dec, stage |-> "version", err |-> "none", pos |-> p,
     start_position |-> p, version |-> <<0>>, version_signed |-> FALSE,
     return_position |-> p,
     marker |-> 0, flag |-> 0, is_segwit |-> FALSE,
     inputs_position |-> p, inputs_position_is_int |-> TRUE,
     count_position |-> p, input_count |-> <<0>>, inputs |-> <<>>,
     output_count |-> <<0>>, outputs |-> <<>>, segwit_position |-> p,
     raw_lock_time |-> <<>>, lock_time |-> <<0>>, end_position |-> p,
     raw_bytes |-> <<>>, hash |-> NoDigest]

\* an exception leaves the constructor; the reader stays where it was
Raise(t, e, p) == [t EXCEPT !.err = e, !.pos = p, !.stage = "raised"]

\* start_position = tell(); version = read_uint32; _return_position = tell()
tx_version(t, b) ==
    With(read_uint32(b, t.pos), LAMBDA v :
        IF v.err # "none" THEN Raise(t, v.err, v.pos)
        ELSE [t EXCEPT !.start_position = t.pos, !.version = v.val,
                       !.version_signed = v.signed,
                       !.return_position = v.pos, !.pos = v.pos,
                       !.stage = "marker"])

\* a segwit check that forgets seek(_return_position)
after_marker_no_seek(t, m, f) ==
    [t EXCEPT !.is_segwit = ~(m.val[1] # 0 \/ f.val[1] # 1), !.pos = f.pos]

\* if _marker != 0 or _flag != 1: seek(_return_position); else is_segwit
after_marker(t, m, f) ==
    IF m.val[1] # 0 \/ f.val[1] # 1
    THEN [t EXCEPT !.is_segwit = FALSE, !.pos = t.return_position]
    ELSE [t EXCEPT !.is_segwit = TRUE, !.pos = f.pos]

\* the segwit check: marker, flag, seek back unless they are 0x00 0x01
tx_marker(t, b) ==
    With(read_uint8(b, t.pos), LAMBDA m :
    With(read_uint8(b, m.pos), LAMBDA f :
    With(after_marker(t, m, f), LAMBDA u :
        [u EXCEPT !.marker = m.val[1], !.flag = f.val[1],
                  \* parse.py binds buffer.tell, the method, not its result
                  !.inputs_position = u.pos,
                  !.inputs_position_is_int = (t.dec # "parse"),
                  !.stage = "inputs"])))

\* input_count = read_varint; the loop over TransactionInput
tx_inputs(t, b) ==
    With(varint_of(t.dec, b, t.pos), LAMBDA c :
        IF c.err # "none"
        THEN Raise([t EXCEPT !.count_position = t.pos], c.err, c.pos)
        ELSE IF ~Countable(c.val)
        THEN Raise([t EXCEPT !.count_position = t.pos], "Unbounded", c.pos)
        ELSE
    With(tx_input_loop(t.dec, b, c.pos, ToInt(c.val), <<>>), LAMBDA l :
    With([t EXCEPT !.count_position = t.pos, !.input_count = c.val,
                   !.inputs = l.items, !.pos = l.pos, !.stage = "outputs"],
         LAMBDA u :
        IF l.err # "none" THEN Raise(u, l.err, l.pos) ELSE u)))

\* output_count = read_varint; the loop over TransactionOutput
tx_outputs(t, b) ==
    With(varint_of(t.dec, b, t.pos), LAMBDA c :
        IF c.err # "none" THEN Raise(t, c.err, c.pos)
        ELSE IF ~Countable(c.val) THEN Raise(t, "Unbounded", c.pos)
        ELSE
    With(tx_output_loop(t.dec, b, c.pos, ToInt(c.val), <<>>), LAMBDA l :
    With([t EXCEPT !.output_count = c.val, !.outputs = l.items,
                   !.pos = l.pos, !.stage = "witness"],
         LAMBDA u :
        IF l.err # "none" THEN Raise(u, l.err, l.pos) ELSE u)))

\* _segwit_position = tell(); the witness stacks of a segwit transaction
tx_witness(t, b) ==
    With([t EXCEPT !.segwit_position = t.pos, !.stage = "locktime"],
         LAMBDA u :
        IF ~t.is_segwit THEN u
        \* BlockTx reads self.tx_in_sz, an attribute it never sets
        ELSE IF t.dec = "cache" THEN Raise(u, "AttributeError", t.pos)
        ELSE
    With(witness_stacks(t.dec, b, t.pos, ToInt(t.input_count)), LAMBDA w :
        IF w.err # "none" THEN Raise(u, w.err, w.pos)
        ELSE [u EXCEPT !.pos = w.pos]))

\* _raw_lock_time = read(4); lock_time = pack(...); _return_position = tell()
tx_locktime(t, b) ==
    With(read(b, t.pos, 4), LAMBDA r :
    With(pack(r.data, 32, FALSE), LAMBDA v :
        IF v.err # "none" THEN Raise(t, v.err, r.pos)
        ELSE [t EXCEPT !.raw_lock_time = r.data, !.lock_time = v.val,
                       !.end_position = r.pos, !.pos = r.pos,
                       !.stage = "hash"]))

\* _raw_version = read(4); _raw_in_out = read(_segwit_position - inputs
\* position), from where the version ended
segwit_in_out(t, b) ==
    read(b, read(b, t.start_position, 4).pos,
         t.segwit_position - t.inputs_position)

\* the bytes of a segwit transaction that BlockTx hashes
segwit_raw_bytes(t, b) ==
    read(b, t.start_position, 4).data \o segwit_in_out(t, b).data
        \o t.raw_lock_time

\* the bytes of a transaction without marker: read(_return_position - start)
legacy_raw_bytes(t, b) ==
    read(b, t.start_position, t.end_position - t.start_position).data

\* self.hash = sha256_2(_raw_bytes).hex(), the reader back at the end
hashed(t, raw) ==
    [t EXCEPT !.raw_bytes = raw, !.pos = t.end_position,
              !.hash = hex_digest(sha256_2(raw)), !.stage = "done"]

\* seek(start); gather the raw bytes; seek(_return_position); hash them
tx_hash(t, b) ==
    IF t.is_segwit /\ t.dec = "parse"
    \* _segwit_position - _inputs_position: int minus bound method
    THEN Raise(t, "TypeError", read(b, t.start_position, 4).pos)
    ELSE IF t.is_segwit /\ t.dec = "prototype"
    \* raw_version + raw_in_out + raw_lock_time: bytes plus numpy.uint32
    THEN Raise(t, "TypeError", segwit_in_out(t, b).pos)
    ELSE IF t.is_segwit THEN hashed(t, segwit_raw_bytes(t, b))
    ELSE hashed(t, legacy_raw_bytes(t, b))

tx_step(t, b) ==
    CASE t.stage = "version"  -> tx_version(t, b)
      [] t.stage = "marker"   -> tx_marker(t, b)
      [] t.stage = "inputs"   -> tx_inputs(t, b)
      [] t.stage = "outputs"  -> tx_outputs(t, b)
      [] t.stage = "witness"  -> tx_witness(t, b)
      [] t.stage = "locktime" -> tx_locktime(t, b)
      [] t.stage = "hash"     -> tx_hash(t, b)
      [] OTHER                -> t

RECURSIVE tx_run(_, _)
tx_run(t, b) ==
    IF t.stage \in {"done", "raised"} THEN t
    ELSE With(tx_step(t, b), LAMBDA u : tx_run(u, b))

\* Transaction(buffer) / BlockTx(block) / decode_tx(block): the whole call
Transaction(dec, b, p) == tx_run(tx_new(dec, p), b)

\* prototype/blockreader.py decode_tx: version, vIn, vOut, lock time
blockreader_decode_tx(b, p) ==
    With([tx_new("blockreader", p) EXCEPT !.stage = "raised"], LAMBDA t0 :
    With(read_uint32(b, p), LAMBDA v :
        IF v.err # "none" THEN Raise(t0, v.err, v.pos) ELSE
    With(read_var_int(b, v.pos), LAMBDA ci :
        IF ci.err # "none" THEN Raise(t0, ci.err, ci.pos)
        ELSE IF ~Countable(ci.val) THEN Raise(t0, "Unbounded", ci.pos) ELSE
    With(tx_input_loop("blockreader", b, ci.pos, ToInt(ci.val), <<>>),
         LAMBDA li :
        IF li.err # "none" THEN Raise(t0, li.err, li.pos) ELSE
    With(read_var_int(b, li.pos), LAMBDA co :
        IF co.err # "none" THEN Raise(t0, co.err, co.pos)
        ELSE IF ~Countable(co.val) THEN Raise(t0, "Unbounded", co.pos) ELSE
    With(tx_output_loop("blockreader", b, co.pos, ToInt(co.val), <<>>),
         LAMBDA lo :
        IF lo.err # "none" THEN Raise(t0, lo.err, lo.pos) ELSE
    With(read_uint32(b, lo.pos), LAMBDA lt :
        IF lt.err # "none" THEN Raise(t0, lt.err, lt.pos)
        ELSE [t0 EXCEPT !.stage = "done", !.version = v.val,
                        !.version_signed = v.signed, !.pos = lt.pos,
                        !.count_position = v.pos,
                        !.input_count = ci.val, !.inputs = li.items,
                        !.output_count = co.val, !.outputs = lo.items,
                        !.lock_time = lt.val, !.end_position = lt.pos])))))))

tx_of(dec, b, p) ==
    IF dec = "blockreader" THEN blockreader_decode_tx(b, p)
    ELSE Transaction(dec, b, p)

\* for _i in range(count): transactions.append(Transaction(reader))
RECURSIVE tx_loop(_, _, _, _, _)
tx_loop(dec, b, p, left, acc) ==
    IF left = 0 THEN [err |-> "none", pos |-> p, items |-> acc]
    ELSE With(tx_of(dec, b, p), LAMBDA t :
             IF t.err # "none"
             THEN [err |-> t.err, pos |-> t.pos, items |-> acc]
             ELSE tx_loop(dec, b, t.pos, left - 1, Append(acc, t)))

----------------------------------------------------------------------------
(* The block decoders *)

NoBlock ==
    [err |-> "none", pos |-> 0, block_sz |-> <<0>>, version |-> <<0>>,
     version_signed |-> FALSE,
     previous_block |-> <<>>, merkle_root |-> <<>>, time |-> <<0>>,
     bits |-> <<0>>, nonce |-> <<0>>, hash |-> NoDigest,
     transaction_count |-> <<0>>, transactions |-> <<>>]

\* a 32-byte header field as the decoder keeps it
hash_text(d, swap) == IF swap THEN hex(set_endian(d, "big")) ELSE hex(d)

\* the six header fields, read from position p; swap tells whether the two
\* 32-byte fields go through set_endian
block_header(b, p, swap) ==
    With(read_uint32(b, p), LAMBDA v :
        IF v.err # "none" THEN [NoBlock EXCEPT !.err = v.err, !.pos = v.pos]
        ELSE
    With(read(b, v.pos, 32), LAMBDA pb :
    With(read(b, pb.pos, 32), LAMBDA mr :
    With(read_uint32(b, mr.pos), LAMBDA tm :
        IF tm.err # "none"
        THEN [NoBlock EXCEPT !.err = tm.err, !.pos = tm.pos]
        ELSE
    With(read_uint32(b, tm.pos), LAMBDA bt :
        IF bt.err # "none"
        THEN [NoBlock EXCEPT !.err = bt.err, !.pos = bt.pos]
        ELSE
    With(read_uint32(b, bt.pos), LAMBDA nc :
        IF nc.err # "none"
        THEN [NoBlock EXCEPT !.err = nc.err, !.pos = nc.pos]
        ELSE [NoBlock EXCEPT !.version = v.val,
                             !.version_signed = v.signed,
                             !.previous_block = hash_text(pb.data, swap),
                             !.merkle_root = hash_text(mr.data, swap),
                             !.time = tm.val, !.bits = bt.val,
                             !.nonce = nc.val, !.pos = nc.pos]))))))

\* the transaction count and the transactions that follow the header
block_transactions(blk, dec, b, p) ==
    With(varint_of(dec, b, p), LAMBDA c :
        IF c.err # "none" THEN [blk EXCEPT !.err = c.err, !.pos = c.pos]
        ELSE IF ~Countable(c.val)
        THEN [blk EXCEPT !.err = "Unbounded", !.pos = c.pos]
        ELSE
    With(tx_loop(dec, b, c.pos, ToInt(c.val), <<>>), LAMBDA l :
        [blk EXCEPT !.transaction_count = c.val, !.transactions = l.items,
                    !.err = l.err, !.pos = l.pos]))

\* the identifier of the decoder: sha256_2(self._reader.read(80)).hex()
header_hash(b, p) == hex_digest(sha256_2(read(b, p, 80).data))

\* cache/parse.py Block.__init__(raw_block)
Block(b) ==
    With(block_header(b, 0, TRUE), LAMBDA h :
        IF h.err # "none" THEN h
        ELSE block_transactions([h EXCEPT !.hash = header_hash(b, 0)],
                                "parse", b, read(b, 0, 80).pos))

\* cache/__init__.py BtcBlock.__init__(raw_block)
BtcBlock(b) ==
    With(read_uint32(b, 0), LAMBDA sz :
        IF sz.err # "none"
        THEN [NoBlock EXCEPT !.err = sz.err, !.pos = sz.pos]
        ELSE
    With(block_header(b, sz.pos, TRUE), LAMBDA h :
        IF h.err # "none" THEN h
        ELSE
    With([h EXCEPT !.block_sz = sz.val, !.hash = header_hash(b, 0)],
         LAMBDA hd :
    With(read_varint(b, read(b, 0, 80).pos), LAMBDA c :
        IF c.err # "none" THEN [hd EXCEPT !.err = c.err, !.pos = c.pos]
        \* for _i in self.tx_sz: a numpy integer is not iterable
        ELSE [hd EXCEPT !.transaction_count = c.val,
                        !.err = "TypeError", !.pos = c.pos]))))

MAGIC == <<217, 180, 190, 249>>      \* uint32(0xf9beb4d9)

\* open_block from the block's bytes on: header, identifier, transactions
open_block_payload(b, sz) ==
    With(block_header(b, 0, FALSE), LAMBDA h :
        IF h.err # "none" THEN [h EXCEPT !.block_sz = sz]
        ELSE block_transactions(
                 [h EXCEPT !.block_sz = sz,
                           !.hash = hex_digest(sha256_of_digest(
                                        sha256(read(b, 0, 80).data)))],
                 "blockreader", b, read(b, 0, 80).pos))

\* prototype/blockreader.py open_block(blk), on the bytes of the file
open_block(file) ==
    With(read_uint32(file, 0), LAMBDA magic :
        IF magic.err # "none"
        THEN [NoBlock EXCEPT !.err = magic.err, !.pos = magic.pos]
        ELSE IF ~NatEq(magic.val, MAGIC)
        THEN [NoBlock EXCEPT !.err = "Exception", !.pos = magic.pos]
        ELSE
    With(read_uint32(file, magic.pos), LAMBDA sz :
        IF sz.err # "none"
        THEN [NoBlock EXCEPT !.err = sz.err, !.pos = sz.pos]
        \* BufferedReader(_block_, _block_sz): the buffer size must be positive
        ELSE IF NatEq(sz.val, <<0>>)
        THEN [NoBlock EXCEPT !.err = "ValueError", !.pos = sz.pos]
        ELSE open_block_payload(script_read(file, sz.pos, sz.val).data,
                                sz.val)))

\* a pass that ends with the reader back where the pass began
index_entry_rewound(b, p) ==
    With(read_uint32(b, p), LAMBDA m :
        IF m.err # "none" THEN [err |-> m.err, pos |-> m.pos]
        ELSE
    With(read_uint32(b, m.pos), LAMBDA sz :
        IF sz.err # "none" THEN [err |-> sz.err, pos |-> sz.pos]
        ELSE
    With(script_read(b, sz.pos, sz.val), LAMBDA blk :
        [err |-> "none", pos |-> p, hash |-> header_hash(b, sz.pos),
         start |-> sz.pos, end |-> blk.pos, size |-> sz.val])))

\* one pass of the loop of BlockDataReader._index_block_data, reader at p
index_entry(b, p) ==
    With(read_uint32(b, p), LAMBDA m :
        IF m.err # "none" THEN [err |-> m.err, pos |-> m.pos]
        ELSE
    With(read_uint32(b, m.pos), LAMBDA sz :
        IF sz.err # "none" THEN [err |-> sz.err, pos |-> sz.pos]
        ELSE
    With(script_read(b, sz.pos, sz.val), LAMBDA blk :
        [err |-> "none", pos |-> blk.pos, hash |-> header_hash(b, sz.pos),
         start |-> sz.pos, end |-> blk.pos, size |-> sz.val])))

\* _index_block_data from its loop on: every pass until tell() >= file_size
RECURSIVE index_scan(_, _, _)
index_scan(b, p, acc) ==
    IF p >= Len(b) THEN [err |-> "none", pos |-> 0, index |-> acc]
    \* more passes than the model follows
    ELSE IF Len(acc) >= MaxRange
    THEN [err |-> "Unbounded", pos |-> p, index |-> acc]
    ELSE With(index_entry(b, p), LAMBDA e :
             IF e.err # "none"
             THEN [err |-> e.err, pos |-> e.pos, index |-> acc]
             ELSE index_scan(b, e.pos,
                             Append(acc, [hash |-> e.hash, start |-> e.start,
                                          end |-> e.end, size |-> e.size])))

BLOCK_MAGIC_NUMBER == <<249, 190, 180, 217>>      \* uint32(0xd9b4bef9)

\* cache/__init__.py BlockReader.get_all_file_blocks, on a reader at p of the
\* file b (_file_sz is its length), blocks being self._blocks
RECURSIVE get_all_file_blocks(_, _, _)
get_all_file_blocks(b, p, blocks) ==
    IF p >= Len(b)
    THEN [err |-> "none", msg |-> "", pos |-> p, blocks |-> blocks]
    ELSE
    With(read_uint32(b, p), LAMBDA magic :
        IF magic.err # "none"
        THEN [err |-> magic.err, msg |-> "", pos |-> magic.pos,
              blocks |-> blocks]
        ELSE IF ~NatEq(magic.val, BLOCK_MAGIC_NUMBER)
        THEN [err |-> "ValueError", msg |-> "Incorrect magic number.",
              pos |-> magic.pos, blocks |-> blocks]
        ELSE
    With(read_uint32(b, magic.pos), LAMBDA sz :
        IF sz.err # "none"
        THEN [err |-> sz.err, msg |-> "", pos |-> sz.pos, blocks |-> blocks]
        ELSE
    \* seek(_block_start): the block is read from the size field on
    With(script_read(b, magic.pos, sz.val), LAMBDA raw :
    With(BtcBlock(raw.data), LAMBDA block :
        IF block.err # "none"
        THEN [err |-> block.err, msg |-> "", pos |-> raw.pos,
              blocks |-> blocks]
        ELSE get_all_file_blocks(b, raw.pos, Append(blocks, block))))))

\* os.pathsep: what separates the directories of a search path (POSIX)
pathsep == ":"

Digits == <<"0", "1", "2", "3", "4", "5", "6", "7", "8", "9">>

\* str(n).zfill(5), for n below 100000
zfill(n) == [i \in 1..5 |-> Digits[((n \div 10^(5 - i)) % 10) + 1]]

\* f"blk{str(blk_id).zfill(5)}.dat"; a string is the sequence of its parts
filename(blk_id) == <<"blk">> \o zfill(blk_id) \o <<".dat">>

\* self.path: the directory, pathsep unless it ends with one, the file name
path(directory, blk_id) ==
    (IF directory[Len(directory)] # pathsep
     THEN Append(directory, pathsep) ELSE directory) \o filename(blk_id)

NoReader ==
    [err |-> "none", path |-> <<>>, file |-> <<>>, file_size |-> 0,
     index |-> <<>>, block_count |-> 0, pos |-> 0]

\* cache/parse.py BlockDataReader.__init__(directory, blk_id), files being
\* the files on disk
BlockDataReader(files, directory, blk_id) ==
    \* self.parent_directory[-1] of an empty string
    IF directory = <<>> THEN [NoReader EXCEPT !.err = "IndexError"]
    ELSE
    With(path(directory, blk_id), LAMBDA p :
        IF p \notin DOMAIN files
        THEN [NoReader EXCEPT !.err = "FileNotFoundError", !.path = p]
        ELSE
    With(index_scan(files[p], 0, <<>>), LAMBDA scan :
        [err |-> scan.err, path |-> p, file |-> files[p],
         file_size |-> Len(files[p]), index |-> scan.index,
         block_count |-> IF scan.err = "none" THEN Len(scan.index) ELSE 0,
         pos |-> scan.pos]))

\* BlockDataReader.get_block_by_index(index) on the file b: a negative index
\* counts from the end of the list
get_block_by_index(ix, b, i) ==
    IF i >= Len(ix) \/ i < 0 - Len(ix)
    THEN [NoBlock EXCEPT !.err = "IndexError"]
    ELSE With(ix[(IF i < 0 THEN i + Len(ix) ELSE i) + 1], LAMBDA entry :
             Block(script_read(b, entry.start, entry.size).data))

\* the loop of get_block_index_by_hash from list position i on
RECURSIVE hash_loop(_, _, _)
hash_loop(ix, h, i) ==
    IF i >= Len(ix) THEN 0 - 1
    ELSE IF h = ix[i + 1].hash THEN i
    ELSE hash_loop(ix, h, i + 1)

get_block_index_by_hash(ix, h) == hash_loop(ix, h, 0)

get_block_by_hash(ix, b, h) ==
    get_block_by_index(ix, b, get_block_index_by_hash(ix, h))

\* cache/__init__.py BlockIndex.__init__(dir): the object it leaves
BlockIndex(dir) == [err |-> "none", _dir |-> dir]

----------------------------------------------------------------------------
(* rpc/__init__.py: BitcoinRPC *)

\* "error": null of a response
Null == [null |-> TRUE, code |-> 0, message |-> ""]

NoResponse == [error |-> Null, result |-> ""]

MaxRequests == 4   \* requests after which no further acall is started

\* a second BitcoinRPC object of the process, not constructed yet; pc is
\* where its acall stands
NoPeer ==
    [max_retries |-> 0, retry_sz |-> 0, sent |-> <<>>, resp |-> NoResponse,
     pc |-> "none"]

\* the module as imported (_next_rpc_id = itertools.count(1).__next__) and
\* BitcoinRPC.__init__(url, rpc_user, rpc_password, max_retries): sent is the
\* ids of the requests the call under way has posted, resp the response last
\* awaited, wire the ids of all requests of the process in the order posted
BitcoinRPC(max_retries) ==
    [max_retries |-> max_retries, retry_sz |-> 0, next_rpc_id |-> 1,
     sent |-> <<>>, resp |-> NoResponse, wire |-> <<>>, peer |-> NoPeer]

\* self is the second object: its attributes and its call change places with
\* those of the first, the module-level counter and the wire stay
peer_view(r) ==
    [r EXCEPT !.max_retries = r.peer.max_retries,
              !.retry_sz = r.peer.retry_sz,
              !.sent = r.peer.sent,
              !.resp = r.peer.resp,
              !.peer = [r.peer EXCEPT !.max_retries = r.max_retries,
                                      !.retry_sz = r.retry_sz,
                                      !.sent = r.sent,
                                      !.resp = r.resp]]

\* a call of acall starts: retry_sz = 0 and nothing posted yet
acall_enter(r) ==
    [r EXCEPT !.retry_sz = 0, !.sent = <<>>, !.resp = NoResponse]

\* an acall whose ids are counted per object
acall_post_own(r) ==
    [r EXCEPT !.sent = Append(r.sent, Len(r.sent) + 1),
              !.wire = Append(r.wire, Len(r.sent) + 1),
              !.next_rpc_id = r.next_rpc_id + 1]

\* acall up to its await: the request is posted with the next id
acall_post(r) ==
    [r EXCEPT !.sent = Append(r.sent, r.next_rpc_id),
              !.wire = Append(r.wire, r.next_rpc_id),
              !.next_rpc_id = r.next_rpc_id + 1]

\* acall from its await on, resp being the response: what it returns or
\* raises.  The retry is self.acall(method, params, _retry_sz + 1, kwargs):
\* kwargs goes as a fourth positional argument of a method that takes three
acall_resume(r, resp) ==
    IF ~resp.error.null
    THEN IF r.retry_sz < r.max_retries
         THEN [err |-> "TypeError"]
         ELSE [err |-> "RPCError", code |-> resp.error.code,
               message |-> resp.error.message]
    ELSE [err |-> "none", result |-> resp.result]

----------------------------------------------------------------------------
(* bitblock/__init__.py: BitBlock, its update loop and consumer threads *)

MaxHeight  == 2   \* largest height the node reports and the file holds
MaxThreads == 2   \* most threads inside _consume_update_queue at once

Threads == 1..MaxThreads

\* a thread that is not running; block is its local _block (a height)
NoThread == [pc |-> "none", block |-> 0]

\* BitBlock.__init__ up to async_get(self._update()).  A block is its height.
\* update_file is the content of .bitblock.update (<<>> when empty), written
\* the heights written to it since, cache the blocks handed to
\* insert_multiple_transactions, node_height the height of the node's best
\* block; last_height, best_height and h are the locals of _update, task is
\* the queueing task of the pass under way, progress the parity of the
\* progress lines printed
BitBlock(auto_update, file, height) ==
    [auto_update |-> auto_update, update_thread_exists |-> FALSE,
     update_queue |-> <<>>, cache |-> <<>>, update_file |-> file,
     written |-> <<>>, node_height |-> height, last_height |-> 0,
     best_height |-> 0, h |-> 0, task |-> "none",
     threads |-> [t \in Threads |-> NoThread], progress |-> 0]

NoBitBlock == BitBlock(FALSE, <<>>, 0)

\* _update down to the for loop: int(_f.readlines()[0]), or 0 on IndexError,
\* and the height of the best block
update_heights(b) ==
    [b EXCEPT !.last_height =
                  IF b.update_file = <<>> THEN 0 ELSE b.update_file[1],
              !.h = IF b.update_file = <<>> THEN 0 ELSE b.update_file[1],
              !.best_height = b.node_height]

\* a pass of the for loop starts: create_task(_a_queue_block_by_height(_h))
\* and to_thread(_consume_update_queue), both handed to gather
update_spawn(b) ==
    [b EXCEPT !.task = "queued",
              !.threads[1] = [pc |-> "check", block |-> 0]]

\* _a_queue_block_by_height(height): the block is fetched and appended
queue_block(b) ==
    [b EXCEPT !.update_queue = Append(@, b.h), !.task = "done"]

\* gather has both results: print_progress_update, and the next _h
update_gathered(b) ==
    [b EXCEPT !.h = @ + 1, !.task = "none", !.threads[1] = NoThread,
              !.progress = 1 - @]

\* the next statement of _consume_update_queue in thread t
consume_step(b, t) ==
    CASE b.threads[t].pc = "check" ->
             \* if self._update_thread_exists: return None
             [b EXCEPT !.threads[t].pc =
                           IF b.update_thread_exists THEN "returned"
                           ELSE "while"]
      [] b.threads[t].pc = "while" ->
             \* while len(self._update_queue) > 0
             [b EXCEPT !.threads[t].pc =
                           IF Len(b.update_queue) > 0 THEN "set"
                           ELSE "clear"]
      [] b.threads[t].pc = "set" ->
             [b EXCEPT !.update_thread_exists = TRUE,
                       !.threads[t].pc = "pop"]
      [] b.threads[t].pc = "pop" ->
             \* self._update_queue.pop(0): IndexError on an empty list
             IF b.update_queue = <<>>
             THEN [b EXCEPT !.threads[t].pc = "raised"]
             ELSE [b EXCEPT !.threads[t].block = Head(b.update_queue),
                            !.update_queue = Tail(@),
                            !.threads[t].pc = "insert"]
      [] b.threads[t].pc = "insert" ->
             [b EXCEPT !.cache = Append(@, b.threads[t].block),
                       !.threads[t].pc = "write"]
      [] b.threads[t].pc = "write" ->
             [b EXCEPT !.update_file = <<b.threads[t].block>>,
                       !.written = Append(@, b.threads[t].block),
                       !.threads[t].pc = "while"]
      [] b.threads[t].pc = "clear" ->
             [b EXCEPT !.update_thread_exists = FALSE,
                       !.threads[t].pc = "returned"]

----------------------------------------------------------------------------
(* The sources the operations are run on *)

MaxBytes  == 8    \* longest byte string handed to pack and the readers
MaxItems  == 1    \* most inputs, and most outputs, of a sample transaction
MaxScript == 2    \* longest script, and most witness items of an input
MaxFrames == 2    \* most framed blocks of a sample block file

Widths == {8, 16, 32, 64}

Samples == {0, 1, 252, 253, 254, 255}

Alphabet(n) ==
    IF n <= 2 THEN Samples ELSE IF n <= 4 THEN {0, 1, 255} ELSE {0, 1}

ByteStrings == UNION {[1..n -> Alphabet(n)] : n \in 0..MaxBytes}

\* a discriminant byte and what follows it
VarintSources ==
    {<<>>} \cup {<<d>> \o s : d \in Samples, s \in ByteStrings}

Prefixes(s) == {SubSeq(s, 1, n) : n \in 0..Len(s)}

RECURSIVE Concat(_, _)
Concat(f, n) == IF n = 0 THEN <<>> ELSE Concat(f, n - 1) \o f[n]

\* the wire bytes of sample input i with a script of slen bytes
WireInput(i, slen) ==
    [j \in 1..32 |-> 40 * i + j] \o <<i, 0, 0, 0>> \o <<slen>>
        \o [j \in 1..slen |-> 80 + j] \o <<250, 250, 250, 250>>

\* the wire bytes of sample output i with a script of slen bytes
WireOutput(i, slen) ==
    <<i, 2, 0, 0, 0, 0, 0, 0>> \o <<slen>> \o [j \in 1..slen |-> 96 + j]

\* the witness stack of an input: wit items of one byte each
WireWitness(wit) == <<wit>> \o Concat([k \in 1..wit |-> <<1, 119>>], wit)

Templates ==
    [segwit : BOOLEAN, nin : 0..MaxItems, nout : 0..MaxItems,
     slen : 0..MaxScript, wit : 0..MaxScript]

WireVersion  == <<1, 0, 0, 0>>
WireLockTime == <<9, 0, 0, 0>>

\* inputs and outputs as they stand on the wire, counts included
WireInOut(tpl) ==
    <<tpl.nin>> \o Concat([i \in 1..tpl.nin |-> WireInput(i, tpl.slen)],
                          tpl.nin)
        \o <<tpl.nout>>
        \o Concat([i \in 1..tpl.nout |-> WireOutput(i, tpl.slen)], tpl.nout)

WireTx(tpl) ==
    WireVersion
        \o (IF tpl.segwit THEN <<0, 1>> ELSE <<>>)
        \o WireInOut(tpl)
        \o (IF tpl.segwit
            THEN Concat([i \in 1..tpl.nin |-> WireWitness(tpl.wit)], tpl.nin)
            ELSE <<>>)
        \o WireLockTime

\* the legacy encoding, and the segwit encoding with empty witness stacks
LegacyTx(tpl) == WireTx([tpl EXCEPT !.segwit = FALSE])
SegwitTx(tpl) == WireTx([tpl EXCEPT !.segwit = TRUE, !.wit = 0])

TxSources ==
    UNION {Prefixes(WireTx(tpl)) :
              tpl \in {t \in Templates : t.segwit \/ t.wit = 0}}

\* a transaction with at least one input (a valid one has no fewer)
PairTemplates ==
    {t \in Templates : ~t.segwit /\ t.wit = 0 /\ t.nin >= 1}

WireHeader(k) == <<k, 0, 0, 0>> \o [j \in 1..76 |-> 10 + j]

SampleTx == LegacyTx([segwit |-> FALSE, nin |-> 1, nout |-> 1, slen |-> 1,
                      wit |-> 0])

\* a block payload: header, transaction count, transactions
WireBlock(k, ntx) ==
    WireHeader(k) \o <<ntx>> \o Concat([i \in 1..ntx |-> SampleTx], ntx)

\* version fields whose little-endian value is 2^31 or more
HighVersions == {<<0, 0, 0, 128>>, <<255, 255, 255, 255>>}

\* the source s with the version ver in place of its first four bytes
Versioned(ver, s) == ver \o SubSeq(s, 5, Len(s))

HighBlocks ==
    {Versioned(ver, WireBlock(1, ntx)) : ver \in HighVersions, ntx \in 0..1}

HighTxs ==
    {Versioned(ver, LegacyTx(tpl)) : ver \in HighVersions,
                                     tpl \in PairTemplates}

LE32(n) == <<n % 256, (n \div 256) % 256, 0, 0>>

\* the frame prefix as a node writes it, and the same bytes backwards
WireMagic     == <<249, 190, 180, 217>>
WireMagicBack == <<217, 180, 190, 249>>

WireFrame(magic, k, ntx) ==
    magic \o LE32(Len(WireBlock(k, ntx))) \o WireBlock(k, ntx)

BlockSources == UNION {Prefixes(WireBlock(k, ntx)) : k \in 1..2, ntx \in 0..1}

\* the 80 header bytes of the network's genesis block
GenesisHeader ==
    <<1, 0, 0, 0>> \o Zeros(32)
        \o <<59, 163, 237, 253, 122, 123, 18, 178, 122, 199, 44, 62, 103, 118,
             143, 97, 127, 200, 27, 195, 136, 138, 81, 50, 58, 159, 184, 170,
             75, 30, 94, 74>>
        \o <<41, 171, 95, 73>> \o <<255, 255, 0, 29>> \o <<29, 172, 43, 124>>

\* bitblock/__init__.py GENESIS_BLOCK_HASH.  The literal 000000000019d668...
\* is the hexadecimal rendering of sha256(sha256(GenesisHeader)) with its 32
\* bytes reversed, which is what the digest term below stands for.
GENESIS_BLOCK_HASH ==
    hex_digest(reverse_digest(sha256_of_digest(sha256(GenesisHeader))))

\* what get_all_file_blocks hands to BtcBlock: the size field and the
\* block_sz bytes from it on
SizedBlockSources ==
    UNION {Prefixes(LE32(Len(WireBlock(k, ntx))) \o WireBlock(k, ntx)) :
              k \in 1..2, ntx \in 0..1}

\* block files of n frames, whole
RECURSIVE Files(_)
Files(n) ==
    IF n = 0 THEN {<<>>}
    ELSE {f \o WireFrame(m, n, ntx) :
             f \in Files(n - 1), m \in {WireMagic, WireMagicBack},
             ntx \in 0..1}

FileSources ==
    UNION {Files(n) : n \in 0..MaxFrames}
        \cup UNION {Prefixes(f) : f \in Files(1)}

MaxPad == 8       \* most zero bytes after the last frame of a sample file

\* a file that holds the same frame twice
DuplicateSources == {f \o f : f \in Files(1)}

\* the files a scanner is run on, before any padding
ScanSources == FileSources \cup DuplicateSources

MaxBlkId == 2     \* largest file number a reader is asked for

Dir == <<"dir">>  \* the name of the block directory

\* a frame whose declared size n is smaller than a header
ShortFrame(n) == WireMagic \o LE32(n) \o SubSeq(WireHeader(3), 1, n)

\* files that start with such a frame, alone or before more bytes
ShortFiles ==
    {ShortFrame(n) \o Zeros(k) : n \in {4, 79}, k \in {0, MaxPad}}

\* what the file numbered 0 and the file numbered 1 may hold
FirstFiles  ==
    UNION {Files(n) : n \in 0..MaxFrames} \cup DuplicateSources
        \cup ShortFiles
SecondFiles == {<<>>} \cup {WireFrame(WireMagic, 2, ntx) : ntx \in 0..1}

\* the two block files under the names s puts them at: "/" puts them inside
\* the directory, pathsep beside it
Layout(s, f0, f1) ==
    [p \in {Dir \o <<s>> \o filename(n) : n \in 0..1} |->
        IF p = Dir \o <<s>> \o filename(0) THEN f0 ELSE f1]

Disks == {Layout(s, f0, f1) : s \in {"/", pathsep}, f0 \in FirstFiles,
                              f1 \in SecondFiles}

\* how a caller may name the directory
Directories == {<<>>, Dir, Dir \o <<"/">>, Dir \o <<pathsep>>}

MaxRetries == 5   \* largest max_retries a sample BitcoinRPC is built with

\* what a node may answer
Responses ==
    {[error |-> Null, result |-> r] : r \in {"r1", "r2"}}
        \cup {[error |-> [null |-> FALSE, code |-> c, message |-> m],
               result |-> ""] : c \in {0 - 1, 0 - 28}, m \in {"m1", "m2"}}

\* an identifier no sample block has
AbsentHash == header_hash(WireHeader(3), 0)

----------------------------------------------------------------------------
(* The state machine: one operation is called on one source *)

NoReturn == [err |-> "none"]

Start(c, sources) ==
    /\ call = c
    /\ buf \in sources
    /\ pc = "start"
    /\ bit_sz = 8
    /\ tx = tx_new("parse", 0)
    /\ twin = <<>>

\* a scanner is called on a file: twin is the file before it was padded
Scan(c) ==
    \E f \in ScanSources, k \in 0..MaxPad :
        /\ call = c
        /\ buf = f \o Zeros(k)
        /\ twin = f
        /\ pc = "start"
        /\ bit_sz = 8
        /\ tx = tx_new("parse", 0)

NoFiles == [p \in {} |-> <<>>]

NoArgs ==
    [directory |-> <<>>, blk_id |-> 0, method |-> "__init__",
     hash |-> hex_digest(NoDigest), index |-> 0]

NoRpc == BitcoinRPC(0)

\* an operation on a byte source: no disk, no reader, no node
OnSource ==
    /\ fs = NoFiles
    /\ args = NoArgs
    /\ rpc = NoRpc
    /\ bb = NoBitBlock

\* BlockDataReader(directory, blk_id) or BlockIndex(directory) over a disk
OnDisk(c, ids) ==
    /\ call = c
    /\ fs \in Disks
    /\ args \in {[NoArgs EXCEPT !.directory = d, !.blk_id = n] :
                     d \in Directories, n \in ids}
    /\ rpc = NoRpc
    /\ bb = NoBitBlock
    /\ buf = <<>> /\ twin = <<>> /\ bit_sz = 8 /\ pc = "start"
    /\ tx = tx_new("parse", 0)

\* an operation of BitBlock: no byte source, no disk, no RPC call under way
OffLine ==
    /\ fs = NoFiles /\ args = NoArgs /\ rpc = NoRpc
    /\ buf = <<>> /\ twin = <<>> /\ bit_sz = 8
    /\ tx = tx_new("parse", 0)

Init ==
    /\ byteorder \in {"little", "big"}
    /\ pos = 0
    /\ ret = NoReturn
    /\ index = <<>>
    /\ \/ /\ OnSource
          /\ \/ call = "pack" /\ buf \in ByteStrings /\ bit_sz \in Widths
                /\ pc = "start" /\ tx = tx_new("parse", 0) /\ twin = <<>>
             \/ call = "read_uint" /\ buf \in ByteStrings
                /\ bit_sz \in Widths
                /\ pc = "start" /\ tx = tx_new("parse", 0) /\ twin = <<>>
             \/ Start("read_varint", VarintSources)
             \/ Start("read_var_int", VarintSources)
             \/ Start("sha256_2", ByteStrings)
             \/ call = "Transaction" /\ buf \in TxSources \cup HighTxs
                /\ bit_sz = 8
                /\ pc = "version" /\ tx \in {tx_new(d, 0) : d \in Decoders}
                /\ twin = <<>>
             \/ \E tpl \in PairTemplates :
                   /\ call = "TransactionTwice" /\ buf = LegacyTx(tpl)
                   /\ twin = SegwitTx(tpl) /\ bit_sz = 8 /\ pc = "start"
                   /\ tx \in {tx_new(d, 0) : d \in Decoders}
             \/ Start("Block", BlockSources \cup HighBlocks
                                \cup {GenesisHeader})
             \/ Start("BtcBlock", BlockSources \cup SizedBlockSources)
             \/ Start("open_block", FileSources)
             \/ Scan("_index_block_data")
             \/ Scan("get_all_file_blocks")
       \/ OnDisk("BlockDataReader", 0..MaxBlkId)
       \/ OnDisk("BlockIndex", {0})
       \/ /\ call = "_update" /\ pc = "start"
          /\ bb \in {BitBlock(a, f, n) :
                        a \in BOOLEAN, n \in 0..MaxHeight,
                        f \in {<<>>} \cup {<<m>> : m \in 0..MaxHeight}}
          /\ OffLine
       \/ /\ call = "_consume_update_queue" /\ pc = "threads"
          /\ \E n \in 0..MaxHeight :
                bb = [BitBlock(TRUE, <<>>, n) EXCEPT
                         !.update_queue = [i \in 1..n |-> i],
                         !.threads = [t \in Threads |->
                                         [pc |-> "check", block |-> 0]]]
          /\ OffLine
       \/ /\ call = "acall" /\ pc = "start"
          /\ fs = NoFiles /\ args = NoArgs /\ rpc = NoRpc
          /\ bb = NoBitBlock
          /\ buf = <<>> /\ twin = <<>> /\ bit_sz = 8
          /\ tx = tx_new("parse", 0)

Return(r) ==
    /\ ret' = r
    /\ pc' = "done"
    /\ UNCHANGED <<bb, fs, args, rpc, byteorder, call, buf, bit_sz, tx, twin,
                   index>>

\* pack(x, bit_sz) on the bytes x = buf
CallPack ==
    /\ call = "pack" /\ pc = "start"
    /\ Return(pack(buf, bit_sz, FALSE))
    /\ pos' = pos

\* read_uint8 / read_uint16 / read_uint32 / read_uint64 on a reader at 0
CallReadUint ==
    /\ call = "read_uint" /\ pc = "start"
    /\ Return(read_uint(buf, pos, bit_sz))
    /\ pos' = ret'.pos

CallReadVarint ==
    /\ call = "read_varint" /\ pc = "start"
    /\ Return(read_varint(buf, pos))
    /\ pos' = ret'.pos

CallReadVarInt ==
    /\ call = "read_var_int" /\ pc = "start"
    /\ Return(read_var_int(buf, pos))
    /\ pos' = ret'.pos

CallSha256_2 ==
    /\ call = "sha256_2" /\ pc = "start"
    /\ Return([err |-> "none", val |-> sha256_2(buf)])
    /\ pos' = pos

\* the next part of Transaction.__init__ / BlockTx.__init__ / decode_tx
TxStage(stage, step(_, _)) ==
    /\ call = "Transaction" /\ pc = stage
    /\ tx' = step(tx, buf)
    /\ pc' = tx'.stage
    /\ pos' = tx'.pos
    /\ UNCHANGED <<bb, fs, args, rpc, byteorder, call, buf, bit_sz, ret,
                   twin, index>>

TxVersion  == TxStage("version", tx_version)
TxMarker   == TxStage("marker", tx_marker)
TxInputs   == TxStage("inputs", tx_inputs)
TxOutputs  == TxStage("outputs", tx_outputs)
TxWitness  == TxStage("witness", tx_witness)
TxLockTime == TxStage("locktime", tx_locktime)
TxHash     == TxStage("hash", tx_hash)

\* the same transaction decoded from its legacy and from its segwit bytes
TransactionTwice ==
    /\ call = "TransactionTwice" /\ pc = "start"
    /\ Return([err |-> "none",
               legacy |-> Transaction(tx.dec, buf, 0),
               segwit |-> Transaction(tx.dec, twin, 0)])
    /\ pos' = pos

CallBlock ==
    /\ call = "Block" /\ pc = "start"
    /\ Return(Block(buf))
    /\ pos' = ret'.pos

CallBtcBlock ==
    /\ call = "BtcBlock" /\ pc = "start"
    /\ Return(BtcBlock(buf))
    /\ pos' = ret'.pos

CallOpenBlock ==
    /\ call = "open_block" /\ pc = "start"
    /\ Return(open_block(buf))
    /\ pos' = ret'.pos

\* _index_block_data: self._reader.seek(0, 0) before the loop
IndexSeek ==
    /\ call = "_index_block_data" /\ pc = "start"
    /\ pos' = 0
    /\ pc' = "loop"
    /\ UNCHANGED <<bb, fs, args, rpc, byteorder, call, buf, bit_sz, ret, tx,
                   twin, index>>

\* one pass of while self._reader.tell() < self.file_size
IndexBlock ==
    /\ call = "_index_block_data" /\ pc = "loop"
    /\ pos < Len(buf)
    /\ LET e == index_entry(buf, pos)
       IN  /\ pos' = e.pos
           /\ IF e.err # "none"
              THEN /\ ret' = [err |-> e.err]
                   /\ pc' = "raised"
                   /\ index' = index
              ELSE /\ index' = Append(index,
                                  [hash |-> e.hash, start |-> e.start,
                                   end |-> e.end, size |-> e.size])
                   /\ pc' = "loop"
                   /\ ret' = ret
    /\ UNCHANGED <<bb, fs, args, rpc, byteorder, call, buf, bit_sz, tx, twin>>

\* the loop ends: self._reader.seek(0, 0)
IndexDone ==
    /\ call = "_index_block_data" /\ pc = "loop"
    /\ pos >= Len(buf)
    /\ pos' = 0
    /\ pc' = "done"
    /\ UNCHANGED <<bb, fs, args, rpc, byteorder, call, buf, bit_sz, ret, tx,
                   twin, index>>

\* BlockReader.get_all_file_blocks on a reader at the start of the file
CallGetAllFileBlocks ==
    /\ call = "get_all_file_blocks" /\ pc = "start"
    /\ Return(get_all_file_blocks(buf, 0, <<>>))
    /\ pos' = ret'.pos

\* BlockDataReader(directory, blk_id): the file is opened and indexed
NewBlockDataReader ==
    /\ call = "BlockDataReader" /\ pc = "start"
    /\ \E self \in {BlockDataReader(fs, args.directory, args.blk_id)} :
          /\ buf' = self.file
          /\ index' = self.index
          /\ pos' = self.pos
          /\ ret' = [err |-> self.err, path |-> self.path,
                     file_size |-> self.file_size,
                     block_count |-> self.block_count]
          /\ pc' = IF self.err = "none" THEN "ready" ELSE "raised"
    /\ UNCHANGED <<bb, fs, args, rpc, byteorder, call, bit_sz, tx, twin>>

\* a lookup on the reader: both end with self._reader.seek(0, 0)
Lookup(method, h, i, block) ==
    /\ args' = [args EXCEPT !.method = method, !.hash = h, !.index = i]
    /\ ret' = block
    /\ pc' = "looked"
    /\ pos' = 0
    /\ UNCHANGED <<bb, fs, rpc, byteorder, call, buf, bit_sz, tx, twin, index>>

GetBlockByHash ==
    /\ call = "BlockDataReader" /\ pc = "ready"
    /\ \E h \in {index[i].hash : i \in 1..Len(index)} \cup {AbsentHash} :
          Lookup("get_block_by_hash", h, 0, get_block_by_hash(index, buf, h))

GetBlockByIndex ==
    /\ call = "BlockDataReader" /\ pc = "ready"
    /\ \E i \in (0 - 1)..Len(index) :
          Lookup("get_block_by_index", args.hash, i,
                 get_block_by_index(index, buf, i))

\* BlockIndex(dir)
NewBlockIndex ==
    /\ call = "BlockIndex" /\ pc = "start"
    /\ Return(BlockIndex(args.directory))
    /\ pos' = pos

\* BitcoinRPC(url, rpc_user, rpc_password, max_retries)
NewBitcoinRPC ==
    /\ call = "acall" /\ pc = "start"
    /\ \E m \in 0..MaxRetries : rpc' = BitcoinRPC(m)
    /\ pc' = "post"
    /\ UNCHANGED <<bb, fs, args, byteorder, call, buf, pos, bit_sz, ret, tx,
                   twin, index>>

\* acall(method, params) up to await req
AcallPost ==
    /\ call = "acall" /\ pc = "post"
    /\ rpc' = acall_post(acall_enter(rpc))
    /\ pc' = "await"
    /\ UNCHANGED <<bb, fs, args, byteorder, call, buf, pos, bit_sz, ret, tx,
                   twin, index>>

\* the node answers and acall runs on to its return or raise
AcallResume ==
    /\ call = "acall" /\ pc = "await"
    /\ \E resp \in Responses :
          /\ rpc' = [rpc EXCEPT !.resp = resp]
          /\ ret' = acall_resume(rpc, resp)
    /\ pc' = IF ret'.err = "none" THEN "done" ELSE "raised"
    /\ UNCHANGED <<bb, fs, args, byteorder, call, buf, pos, bit_sz, tx, twin,
                   index>>

\* acall is called again on the first object
AcallAgain ==
    /\ call = "acall" /\ pc \in {"done", "raised"}
    /\ Len(rpc.wire) < MaxRequests
    /\ pc' = "post"
    /\ UNCHANGED <<bb, fs, args, rpc, byteorder, call, buf, pos, bit_sz, ret,
                   tx, twin, index>>

\* a second BitcoinRPC(url, rpc_user, rpc_password, max_retries)
NewPeer ==
    /\ call = "acall" /\ pc # "start" /\ rpc.peer.pc = "none"
    /\ \E m \in 0..MaxRetries :
          rpc' = [rpc EXCEPT !.peer = [NoPeer EXCEPT !.max_retries = m,
                                                    !.pc = "post"]]
    /\ UNCHANGED <<bb, fs, args, byteorder, call, buf, pos, bit_sz, ret, tx,
                   twin, index, pc>>

\* acall(method, params) of the second object up to await req
PeerPost ==
    /\ call = "acall" /\ rpc.peer.pc \in {"post", "done", "raised"}
    /\ Len(rpc.wire) < MaxRequests
    /\ rpc' = [peer_view(acall_post(acall_enter(peer_view(rpc))))
                  EXCEPT !.peer.pc = "await"]
    /\ UNCHANGED <<bb, fs, args, byteorder, call, buf, pos, bit_sz, ret, tx,
                   twin, index, pc>>

\* the node answers the second object and its acall returns or raises
PeerResume ==
    /\ call = "acall" /\ rpc.peer.pc = "await"
    /\ \E resp \in Responses :
          rpc' = [rpc EXCEPT
                     !.peer.resp = resp,
                     !.peer.pc =
                         IF acall_resume(peer_view(rpc), resp).err = "none"
                         THEN "done" ELSE "raised"]
    /\ UNCHANGED <<bb, fs, args, byteorder, call, buf, pos, bit_sz, ret, tx,
                   twin, index, pc>>

\* what the steps of BitBlock leave alone
Rest == <<byteorder, call, buf, pos, bit_sz, ret, tx, twin, index, fs, args,
          rpc>>

\* _update down to the for loop
UpdateStart ==
    /\ call = "_update" /\ pc = "start"
    /\ IF bb.auto_update
       THEN bb' = update_heights(bb) /\ pc' = "for"
       ELSE bb' = bb /\ pc' = "returned"
    /\ UNCHANGED Rest

\* for _h in range(_last_height, _best_height + 1), down to await gather
UpdateFor ==
    /\ call = "_update" /\ pc = "for"
    /\ IF bb.h <= bb.best_height
       THEN bb' = update_spawn(bb) /\ pc' = "gather"
       ELSE bb' = bb /\ pc' = "tail"
    /\ UNCHANGED Rest

\* the queueing task runs
QueueBlock ==
    /\ call = "_update" /\ bb.task = "queued"
    /\ bb' = queue_block(bb)
    /\ UNCHANGED <<Rest, pc>>

\* gather returns once the task and the thread have ended, or raises what
\* the thread raised
UpdateGather ==
    /\ call = "_update" /\ pc = "gather"
    /\ bb.task = "done" /\ bb.threads[1].pc \in {"returned", "raised"}
    /\ IF bb.threads[1].pc = "raised"
       THEN bb' = bb /\ pc' = "raised"
       ELSE bb' = update_gathered(bb) /\ pc' = "for"
    /\ UNCHANGED Rest

\* while len(self._update_queue) > 0: print_progress_update(...)
UpdateTail ==
    /\ call = "_update" /\ pc = "tail"
    /\ IF Len(bb.update_queue) > 0
       THEN bb' = [bb EXCEPT !.progress = 1 - @] /\ pc' = pc
       ELSE bb' = bb /\ pc' = "returned"
    /\ UNCHANGED Rest

\* thread t runs its next statement of _consume_update_queue
Consume(t) ==
    /\ call \in {"_update", "_consume_update_queue"}
    /\ bb.threads[t].pc \in
           {"check", "while", "set", "pop", "insert", "write", "clear"}
    /\ bb' = consume_step(bb, t)
    /\ UNCHANGED <<Rest, pc>>

Next ==
    \/ CallPack
    \/ CallReadUint
    \/ CallReadVarint
    \/ CallReadVarInt
    \/ CallSha256_2
    \/ TxVersion
    \/ TxMarker
    \/ TxInputs
    \/ TxOutputs
    \/ TxWitness
    \/ TxLockTime
    \/ TxHash
    \/ TransactionTwice
    \/ CallBlock
    \/ CallBtcBlock
    \/ CallOpenBlock
    \/ IndexSeek
    \/ IndexBlock
    \/ IndexDone
    \/ CallGetAllFileBlocks
    \/ NewBlockDataReader
    \/ GetBlockByHash
    \/ GetBlockByIndex
    \/ NewBlockIndex
    \/ NewBitcoinRPC
    \/ AcallPost
    \/ AcallResume
    \/ AcallAgain
    \/ NewPeer
    \/ PeerPost
    \/ PeerResume
    \/ UpdateStart
    \/ UpdateFor
    \/ QueueBlock
    \/ UpdateGather
    \/ UpdateTail
    \/ \E t \in Threads : Consume(t)

Spec == Init /\ [][Next]_vars

\* _index_block_data is straight-line code in one thread: a step of it that
\* can be taken is taken.  The event loop runs the coroutine _update and the
\* queueing task whenever they can run, and the operating system runs every
\* thread that has a statement to run.
FairSpec ==
    /\ Spec
    /\ WF_vars(IndexSeek) /\ WF_vars(IndexBlock) /\ WF_vars(IndexDone)
    /\ WF_vars(UpdateStart) /\ WF_vars(UpdateFor) /\ WF_vars(QueueBlock)
    /\ WF_vars(UpdateGather) /\ WF_vars(UpdateTail)
    /\ \A t \in Threads : WF_vars(Consume(t))

\* no source makes a loop count exceed what the model runs through
NoUnbounded ==
    /\ tx.err # "Unbounded"
    /\ ret.err # "Unbounded"

----------------------------------------------------------------------------
(* Properties of the codec *)

\* the little-endian value of the bytes x is x itself, read as coefficients
LittleEndian(x) == x

Returned(c) == call = c /\ pc = "done"

\* a full-width payload after the discriminant that a shorter form could hold
NonMinimal(b) ==
    \/ Len(b) = 3 /\ b[1] = 253
          /\ NatLess(LittleEndian(SubSeq(b, 2, 3)), <<253>>)
    \/ Len(b) = 5 /\ b[1] = 254
          /\ NatLess(LittleEndian(SubSeq(b, 2, 5)), <<0, 0, 1>>)
    \/ Len(b) = 9 /\ b[1] = 255
          /\ NatLess(LittleEndian(SubSeq(b, 2, 9)), <<0, 0, 0, 0, 1>>)

\* C1: read_varint and read_var_int end in an error, and return no value, on
\* every non-minimal compact-size encoding (0xfd with a 2-byte value below
\* 0xfd, 0xfe with a 4-byte value below 0x10000, 0xff with an 8-byte value
\* below 0x100000000).
C1_NonMinimalRejected ==
    ((Returned("read_varint") \/ Returned("read_var_int")) /\ NonMinimal(buf))
        => ret.err # "none"

\* the shortest encoding of the value it holds
Minimal(b) ==
    \/ Len(b) = 1 /\ b[1] < 253
    \/ Len(b) = 3 /\ b[1] = 253
          /\ ~NatLess(LittleEndian(SubSeq(b, 2, 3)), <<253>>)
    \/ Len(b) = 5 /\ b[1] = 254
          /\ ~NatLess(LittleEndian(SubSeq(b, 2, 5)), <<0, 0, 1>>)
    \/ Len(b) = 9 /\ b[1] = 255
          /\ ~NatLess(LittleEndian(SubSeq(b, 2, 9)), <<0, 0, 0, 0, 1>>)

\* the value a minimal encoding holds
Encoded(b) ==
    IF Len(b) = 1 THEN <<b[1]>> ELSE LittleEndian(SubSeq(b, 2, Len(b)))

\* C2: read_varint on the minimal encoding of n returns exactly n and leaves
\* the cursor right after the encoding's last byte (1, 3, 5 or 9 consumed).
C2_MinimalRoundTrip ==
    (Returned("read_varint") /\ Minimal(buf))
        => /\ ret.err = "none"
           /\ NatEq(ret.val, Encoded(buf))
           /\ pos = Len(buf)

\* the bytes a varint needs after its discriminant
PayloadWidth(d) ==
    IF d = 253 THEN 2 ELSE IF d = 254 THEN 4 ELSE IF d = 255 THEN 8 ELSE 0

\* the source ends before the field does
ShortFixed == Len(buf) < bit_sz \div 8

ShortVarint ==
    \/ Len(buf) = 0
    \/ Len(buf) >= 1 /\ Len(buf) - 1 < PayloadWidth(buf[1])

\* C3: a fixed-width read, and the discriminant and payload reads of
\* read_varint, end in an error whenever fewer bytes remain than the field is
\* wide, zero bytes included; no integer is built from a short or empty read.
C3_ShortReadFails ==
    /\ (Returned("read_uint") /\ ShortFixed) => ret.err # "none"
    /\ ((Returned("read_varint") \/ Returned("read_var_int")) /\ ShortVarint)
           => ret.err # "none"

\* C4: pack(x, w) of exactly w/8 bytes returns the little-endian value of x
\* (sum of x[i] * 256^i), on a little-endian and on a big-endian host alike.
C4_PackLittleEndian ==
    (Returned("pack") /\ Len(buf) = bit_sz \div 8)
        => /\ ret.err = "none"
           /\ NatEq(ret.val, LittleEndian(buf))

\* C5: sha256_2(x) is reverse(hash(hash(x))): the second hash takes the first
\* digest in the order the first hash emitted it, and only the last digest is
\* reversed.
C5_DoubleHashDisplay ==
    Returned("sha256_2")
        => ret.val = [msg |-> buf, flips |-> <<FALSE, TRUE>>]

----------------------------------------------------------------------------
(* Properties of the block and transaction decoders *)

\* the display form of the double hash of the 80 bytes of b from position p
HeaderId(b, p) ==
    [hex |-> [msg |-> SubSeq(b, p + 1, p + 80), flips |-> <<FALSE, TRUE>>]]

\* C6: in parse.Block, the index builder, BtcBlock and open_block the block
\* identifier is the display form of the double hash of exactly the 80 header
\* bytes, from the first version byte (not the size field or the magic) to
\* the end of the nonce.
C6_BlockIdOverHeader ==
    /\ (Returned("Block") /\ Len(buf) >= 80) => ret.hash = HeaderId(buf, 0)
    /\ (Returned("BtcBlock") /\ Len(buf) >= 84) => ret.hash = HeaderId(buf, 4)
    /\ (Returned("open_block") /\ Len(buf) >= 88 /\ ret.hash # NoDigest)
           => ret.hash = HeaderId(buf, 8)
    /\ call = "_index_block_data"
           => \A i \in 1..Len(index) :
                  index[i].start + 80 <= Len(buf)
                      => index[i].hash = HeaderId(buf, index[i].start)

\* C7: the legacy encoding of a transaction and its segwit encoding (marker,
\* flag and an empty witness stack per input added) both decode, and to the
\* same identifier.
C7_TwinIdentifiers ==
    Returned("TransactionTwice")
        => /\ ret.legacy.err = "none"
           /\ ret.segwit.err = "none"
           /\ ret.legacy.hash = ret.segwit.hash

Decoded == call = "Transaction" /\ pc = "done"

\* C8: the bytes hashed into a decoded transaction's identifier are its 4
\* version bytes, the wire bytes from the input count through the last
\* output's script, and its 4 lock-time bytes: no marker, flag or witness
\* byte, and every byte of the inputs and outputs.
C8_HashedBytes ==
    Decoded
        => /\ Len(tx.raw_bytes)
                  = 4 + (tx.segwit_position - tx.count_position) + 4
           /\ tx.raw_bytes
                  = SubSeq(buf, tx.start_position + 1, tx.start_position + 4)
                      \o SubSeq(buf, tx.count_position + 1,
                                tx.segwit_position)
                      \o SubSeq(buf, tx.end_position - 3, tx.end_position)

\* the segwit check of a transaction at position 0 has run
MarkerDone ==
    call = "Transaction" /\ Len(buf) >= 4 /\ pc \notin {"version", "marker"}

\* the two bytes after the 4-byte version are 0x00 then 0x01
IsMarkerFlag == Len(buf) >= 6 /\ buf[5] = 0 /\ buf[6] = 1

\* where the input count is read from, or was
InputsFrom == IF pc = "inputs" THEN pos ELSE tx.count_position

\* C9: is_segwit is true exactly when the two bytes after the 4-byte version
\* are 0x00 then 0x01, and then both are consumed before the input count is
\* read; otherwise the cursor is back right after the version and the input
\* count is read from there.
C9_SegwitDetection ==
    MarkerDone
        => /\ tx.is_segwit <=> IsMarkerFlag
           /\ InputsFrom = (IF IsMarkerFlag THEN 6 ELSE 4)

\* a first byte 0x00 not followed by 0x01: the decoder went back to 4
C9_Rewound ==
    /\ MarkerDone /\ pc = "outputs"
    /\ Len(buf) >= 6 /\ buf[5] = 0 /\ buf[6] # 1
    /\ ~tx.is_segwit /\ tx.count_position = 4

\* as many script bytes as the length field declared (two digits a byte)
WholeScript(text, size) == Len(text) = 2 * ToInt(size)

\* C10: a script whose declared length exceeds the bytes that remain makes
\* the decoding fail; no decoded transaction holds a script shorter than its
\* declared length.
C10_OverLengthFails ==
    Decoded
        => /\ \A i \in 1..Len(tx.inputs) :
                  WholeScript(tx.inputs[i].sig_script,
                              tx.inputs[i].script_size)
           /\ \A i \in 1..Len(tx.outputs) :
                  WholeScript(tx.outputs[i].pk_script,
                              tx.outputs[i].script_size)

----------------------------------------------------------------------------
(* Properties of the block decoder's transaction list *)

\* the source holds a whole header and a transaction count of zero
ZeroCount == Len(buf) >= 81 /\ buf[81] = 0

\* C11: a block whose transaction-count varint is zero is reported as an
\* error; Block never returns with an empty transaction list.
C11_ZeroCountRejected ==
    /\ (Returned("Block") /\ ZeroCount) => ret.err # "none"
    /\ (Returned("Block") /\ ret.err = "none") => ret.transactions # <<>>

----------------------------------------------------------------------------
(* Properties of the file scanners *)

Scanning(c) == call = c /\ pc # "start"

\* the four bytes at offset p are a frame prefix that is neither the magic
\* constant as it stands on disk nor all zero
BadPrefix(p) ==
    /\ p >= 0 /\ p + 4 <= Len(buf)
    /\ SubSeq(buf, p + 1, p + 4) \notin {WireMagic, Zeros(4)}

\* C12: a frame prefix that is neither the magic constant nor all zero aborts
\* the scan with an error; no index entry is recorded for that frame or a
\* later one, and the entries of earlier frames are kept.
C12_BadMagicAborts ==
    /\ Scanning("_index_block_data")
           => \A i \in 1..Len(index) : ~BadPrefix(index[i].start - 8)
    /\ (Returned("get_all_file_blocks") /\ BadPrefix(0))
           => ret.err # "none" /\ ret.blocks = <<>>

\* files made of whole frames only
WholeFiles == UNION {Files(n) : n \in 0..MaxFrames}

Hashes(ix) == [i \in 1..Len(ix) |-> ix[i].hash]

\* C13: scanning a file that ends in zero bytes after its last frame finishes
\* without error, with as many index entries, of the same hashes, as scanning
\* the file without those bytes; the padding gets no entry.
C13_PaddingIgnored ==
    /\ (call = "_index_block_data" /\ pc \in {"done", "raised"}
            /\ twin \in WholeFiles)
           => /\ pc = "done"
              /\ Hashes(index) = Hashes(index_scan(twin, 0, <<>>).index)
    /\ (Returned("get_all_file_blocks") /\ twin \in WholeFiles)
           => ret.err = "none"

\* the file starts with the magic constant as a node writes it: f9 be b4 d9
MagicFirst == Len(buf) >= 4 /\ SubSeq(buf, 1, 4) = WireMagic

\* C14: a frame whose prefix on disk is f9 be b4 d9 passes the magic check of
\* get_all_file_blocks and of open_block.
C14_MagicAccepted ==
    /\ (Returned("open_block") /\ MagicFirst) => ret.err # "Exception"
    /\ (Returned("get_all_file_blocks") /\ MagicFirst)
           => ret.msg # "Incorrect magic number."

\* the bytes an index entry points at
Payload(e) == SubSeq(buf, e.start + 1, e.end)

\* C15: at every point of a scan each index entry is a block that lies
\* entirely inside the file and decodes without error; a frame that runs past
\* the end of the file, or whose payload does not decode, gets no entry.
C15_IndexedBlocksDecode ==
    Scanning("_index_block_data")
        => \A i \in 1..Len(index) :
               /\ IsSmall(index[i].size)
               /\ index[i].end - index[i].start = ToInt(index[i].size)
               /\ Block(Payload(index[i])).err = "none"

\* C16: no two index entries carry the same block identifier (the scanner
\* has no way to report a duplicate, so none may be recorded).
C16_UniqueIdentifiers ==
    Scanning("_index_block_data")
        => \A i, j \in 1..Len(index) :
               i # j => index[i].hash # index[j].hash

----------------------------------------------------------------------------
(* Properties of the block-file reader *)

\* the name of block file n inside the directory
InDirectory(n) == Dir \o <<"/">> \o filename(n)

\* the directory holds the files 0 and 1, one block each, of distinct
\* content, and the caller names that directory
TwoFiles ==
    /\ DOMAIN fs = {InDirectory(0), InDirectory(1)}
    /\ fs[InDirectory(0)] \in Files(1)
    /\ fs[InDirectory(1)] # <<>>
    /\ args.directory \in {Dir, Dir \o <<"/">>}

Built == call \in {"BlockDataReader", "BlockIndex"} /\ pc # "start"

\* C17: an index built over a directory with the block files 0 and 1, one
\* block each, has exactly two entries, the block of file 0 first and the
\* block of file 1 second, and each is found by its identifier.
C17_TwoFilesIndexed ==
    (Built /\ TwoFiles) =>
        /\ ret.err = "none"
        /\ Len(index) = 2
        /\ index[1].hash = header_hash(fs[InDirectory(0)], 8)
        /\ index[2].hash = header_hash(fs[InDirectory(1)], 8)
        /\ get_block_index_by_hash(index, index[1].hash) = 0
        /\ get_block_index_by_hash(index, index[2].hash) = 1

LookedUp(method) ==
    call = "BlockDataReader" /\ pc = "looked" /\ args.method = method

Indexed(h) == \E i \in 1..Len(index) : index[i].hash = h

\* C18: get_block_by_hash(h) returns a block whose identifier is h when an
\* index entry has hash h, and returns no block when none has.
C18_LookupByHash ==
    LookedUp("get_block_by_hash") =>
        IF Indexed(args.hash)
        THEN ret.err = "none" /\ ret.hash = args.hash
        ELSE ret.err # "none"

----------------------------------------------------------------------------
(* Properties of the version field *)

\* the integer a decoded 32-bit value stands for is below zero: its type is
\* signed and its top bit is set
Negative32(val, signed) == signed /\ Coef(val, 4) >= 128

\* the little-endian value of the first four bytes of the source is 2^31 or
\* more
HighBit == Len(buf) >= 4 /\ buf[4] >= 128

BlockDecoded == Returned("Block") /\ Len(buf) >= 4 /\ ret.err = "none"

VersionDecoded == call = "Transaction" /\ Len(buf) >= 4 /\ pc # "version"

\* C19: the version of a block header and of a transaction is decoded as a
\* signed 32-bit integer: it keeps the 32 bits of the wire bytes and is below
\* zero exactly when their little-endian value is 2^31 or more.
C19_SignedVersion ==
    /\ BlockDecoded =>
          /\ NatEq(ret.version, SubSeq(buf, 1, 4))
          /\ Negative32(ret.version, ret.version_signed) <=> HighBit
    /\ VersionDecoded =>
          /\ NatEq(tx.version, SubSeq(buf, 1, 4))
          /\ Negative32(tx.version, tx.version_signed) <=> HighBit

----------------------------------------------------------------------------
(* Properties of the RPC client *)

Finished == call = "acall" /\ pc \in {"done", "raised"}

\* C20: acall ends either on a response without error, returning its result
\* after at most max_retries + 1 requests, or on the error that answered
\* request number max_retries + 1, raising RPCError with its code and message.
C20_RetryBound ==
    Finished =>
        IF rpc.resp.error.null
        THEN /\ ret.err = "none"
             /\ ret.result = rpc.resp.result
             /\ Len(rpc.sent) <= rpc.max_retries + 1
        ELSE /\ ret.err = "RPCError"
             /\ ret.code = rpc.resp.error.code
             /\ ret.message = rpc.resp.error.message
             /\ Len(rpc.sent) = rpc.max_retries + 1

\* C28: every request posted by acall, from whichever BitcoinRPC object of
\* the process, carries an id of the one module-level counter: the first id
\* is 1, the ids increase strictly in the order the requests are posted and
\* no id is used twice.
C28_IdsIncrease ==
    call = "acall" =>
        /\ Len(rpc.wire) > 0 => rpc.wire[1] = 1
        /\ \A i, j \in 1..Len(rpc.wire) :
               i < j => rpc.wire[i] < rpc.wire[j]

\* both objects have posted, the first one in two calls
C28_BothPosted ==
    /\ call = "acall"
    /\ Len(rpc.wire) >= 3
    /\ Len(rpc.peer.sent) > 0
    /\ Len(rpc.sent) > 0 /\ rpc.sent[1] > 1
    /\ rpc.peer.sent[1] < rpc.sent[1]

----------------------------------------------------------------------------
(* Properties of the genesis block *)

GenesisDecoded == Returned("Block") /\ buf = GenesisHeader

\* C21: decoding the 80 bytes of the genesis block header yields the block
\* identifier the package holds as GENESIS_BLOCK_HASH.
C21_GenesisIdentifier ==
    GenesisDecoded => ret.err = "none" /\ ret.hash = GENESIS_BLOCK_HASH

----------------------------------------------------------------------------
(* Properties of the index entries *)

\* the scan of the file in buf has finished without an exception
IndexBuilt ==
    \/ call = "_index_block_data" /\ pc = "done"
    \/ call = "BlockDataReader" /\ pc \in {"ready", "looked"}

\* C22: after a file is indexed every entry has end = start + size and
\* end <= file size, the first entry starts at offset 8 and every later one
\* 8 bytes after the end of the entry before it.
C22_EntriesContiguous ==
    IndexBuilt =>
        \A i \in 1..Len(index) :
            /\ IsSmall(index[i].size)
            /\ index[i].end = index[i].start + ToInt(index[i].size)
            /\ index[i].end <= Len(buf)
            /\ index[i].start = IF i = 1 THEN 8 ELSE index[i - 1].end + 8

----------------------------------------------------------------------------
(* Properties of the stored scripts *)

\* the wire bytes of a decoded input that ends at position e and has a script
\* of n bytes behind a one-byte length: identifier, index, length, script,
\* sequence
WireScriptIn(e, n) == SubSeq(buf, e - 4 - n + 1, e - 4)
WirePrevTx(e, n)   == SubSeq(buf, e - 41 - n + 1, e - 9 - n)

\* the wire bytes of the script of a decoded output that ends at position e
WireScriptOut(e, n) == SubSeq(buf, e - n + 1, e)

\* the item was decoded from a source that holds all of its bytes
WholeItem(item, fixed) ==
    /\ item.err = "none"
    /\ IsSmall(item.script_size)
    /\ ToInt(item.script_size) < 253
    /\ item.pos - fixed - ToInt(item.script_size) >= 0
    /\ item.pos <= Len(buf)

\* C23: the stored script of every decoded input and output is the
\* script_size bytes that follow the length on the wire, in wire order, and
\* the stored previous-transaction identifier of an input is its 32 wire
\* bytes reversed.
C23_ScriptsOpaque ==
    call = "Transaction" =>
        /\ \A i \in 1..Len(tx.inputs) :
              WholeItem(tx.inputs[i], 41) =>
                  /\ tx.inputs[i].sig_script =
                         hex(WireScriptIn(tx.inputs[i].pos,
                                          ToInt(tx.inputs[i].script_size)))
                  /\ tx.inputs[i].hash =
                         hex(Reverse(WirePrevTx(
                                 tx.inputs[i].pos,
                                 ToInt(tx.inputs[i].script_size))))
        /\ \A i \in 1..Len(tx.outputs) :
              WholeItem(tx.outputs[i], 9) =>
                  tx.outputs[i].pk_script =
                      hex(WireScriptOut(tx.outputs[i].pos,
                                        ToInt(tx.outputs[i].script_size)))

----------------------------------------------------------------------------
(* Properties of the lookup by position *)

\* get_block_by_index was called with the position of an index entry
EntryLookedUp ==
    /\ LookedUp("get_block_by_index")
    /\ args.index \in 0..(Len(index) - 1)

\* C24: for every index entry i, get_block_by_index(i) returns a block whose
\* hash is the hash of entry i, and it leaves the index as the scan built it
\* and the reader at offset 0.
C24_LookupMatchesEntry ==
    EntryLookedUp =>
        /\ ret.err = "none"
        /\ ret.hash = index[args.index + 1].hash
        /\ index = index_scan(buf, 0, <<>>).index
        /\ pos = 0

----------------------------------------------------------------------------
(* Termination of the scan *)

ScanEnded == call = "_index_block_data" /\ pc \in {"done", "raised"}

\* C25: every pass of the scan loop moves the reader forward, the loop makes
\* no more passes than the file has bytes, and the scan ends, with an index
\* or with an exception.
C25_ScanTerminates ==
    /\ [][IndexBlock => pos' > pos]_vars
    /\ [](call = "_index_block_data" => Len(index) <= Len(buf))
    /\ (call = "_index_block_data") ~> ScanEnded

\* a scan that made more than one pass has ended
C25_ScanEnded == ScanEnded /\ pc = "done" /\ Len(index) >= 2

----------------------------------------------------------------------------
(* Properties of the update loop *)

Updating == call = "_update" /\ bb.auto_update

\* the heights from a up to b, in ascending order
Heights(a, b) == [i \in 1..(b + 1 - a) |-> a + i - 1]

\* C26: with auto-update enabled _update eventually returns, and when it does
\* the update queue is empty and every block of height last_height up to
\* best_height was handed to the cache exactly once, in ascending order.
C26_UpdateReturns ==
    /\ Updating ~> (Updating /\ pc = "returned")
    /\ []((Updating /\ pc = "returned") =>
              /\ bb.update_queue = <<>>
              /\ bb.cache = Heights(bb.last_height, bb.best_height))

Consuming == call = "_consume_update_queue"

\* thread t is inside the body of the drain loop
Draining(t) == bb.threads[t].pc \in {"set", "pop", "insert", "write"}

\* C27: of the threads that call _consume_update_queue concurrently at most
\* one is inside the drain loop at a time, no queued block is inserted into
\* the cache twice, and the height written to .bitblock.update never
\* decreases during a run.
C27_OneConsumer ==
    Consuming =>
        /\ \A s, t \in Threads : Draining(s) /\ Draining(t) => s = t
        /\ \A i, j \in 1..Len(bb.cache) :
               bb.cache[i] = bb.cache[j] => i = j
        /\ \A i \in 1..(Len(bb.written) - 1) :
               bb.written[i] <= bb.written[i + 1]

====
